---------------------------- MODULE Spec2Model ----------------------------
(***************************************************************************)
(* Idiom-chain (成语接龙) playground: the match engine (src/battle.py,      *)
(* src/validator.py), the continuation count of src/reward.py and the      *)
(* tournament of src/benchmark.py.                                         *)
(*                                                                         *)
(* A phrase is a sequence of characters (characters are small naturals);   *)
(* the empty string "" is the empty sequence.  Python's word[0] is Head    *)
(* and word[-1] is the last element.  The Chinese string literals of the   *)
(* source are written in ASCII (the original is given beside each one).    *)
(***************************************************************************)
EXTENDS Integers, Sequences, FiniteSets, TLC

VARIABLES
    start_word,         \* execute_battle parameter
    history_words,      \* list[str]: accepted phrases in play order
    used_words,         \* set[str]
    history_records,    \* list[dict]: one RoundEvent.model_dump() per turn
    current_player,     \* "A" | "B"
    winner,             \* None ("none") | "A" | "B" | "draw"
    reason,             \* str
    round_num,          \* loop variable of `for round_num in range(1, MAX_ROUNDS + 1)`
    last_next_word,     \* next_word of the last accepted turn
    last_valid_player,  \* player of the last accepted turn ("" before any)
    pc,                 \* "loop" | "save" | "done" | "raised" ("idle": no match)
    llm_calls,          \* number of call_llm invocations made so far
    db,                 \* rows of the battles table written by Battle.create
    result,             \* the returned BattleResult, NoResult before the return
    \* one call of a pure function of validator.py / reward.py
    fcall,              \* [fn, arguments, ret]; fn = "none" before any call
    \* run_benchmark (src/benchmark.py)
    num_words,          \* request.num_words
    words,              \* list[str]: the sampled starting phrases
    max_concurrency,    \* request.max_concurrency
    semaphore,          \* asyncio.Semaphore: its free slots
    waiters,            \* asyncio.Semaphore: tasks blocked in acquire, FIFO
    tasks,              \* list[asyncio.Task]: state of each scheduled match
    finished,           \* task numbers in the order the tasks completed
    saved,              \* rows written to the battles table by the tournament
    completed,          \* run_benchmark.completed
    results,            \* run_benchmark.results
    events,             \* SSE events yielded by run_benchmark
    bpc,                \* "idle" | "running" | "done" | "aborted"
    \* run_battle (src/battle.py)
    stream              \* [st, delivered]: the generator and the events it yielded

match_vars == <<start_word, history_words, used_words, history_records,
                current_player, winner, reason, round_num, last_next_word,
                last_valid_player, pc, llm_calls, db, result>>

bench_vars == <<num_words, words, max_concurrency, semaphore, waiters, tasks, finished,
                saved, completed, results, events, bpc>>

vars == <<start_word, history_words, used_words, history_records, current_player,
          winner, reason, round_num, last_next_word, last_valid_player, pc,
          llm_calls, db, result, fcall, num_words, words, max_concurrency, semaphore,
          waiters, tasks, finished, saved, completed, results, events, bpc,
          stream>>

-----------------------------------------------------------------------------
(* Program constants and string literals *)

MAX_ROUNDS == 30

Empty == << >>                               \* ""

LabelA == "ModelA"                           \* "模型A"
LabelB == "ModelB"                           \* "模型B"
MsgNotInLexicon == "_not_in_lexicon"         \* "成语不在词库中"
MsgFirstCharMismatch == "_first_char_mismatch"   \* "首字不匹配"
MsgSoundMismatch == "_first_sound_mismatch"  \* "首字读音不匹配"
MsgToneMismatch == "_first_tone_mismatch"    \* "首字读音不匹配（多音字声调不同）"
MsgAlreadyUsed == "_already_used"            \* "成语已使用过"
MsgReused == "_reused"                       \* "成语重复使用"
MsgCallFailed == "_call_failed"              \* "调用失败"
MsgLLMCallFailed == "llm_call_failed"        \* "LLM 调用失败"
MsgResigned == "_resigned"                   \* "认输"
MsgCannotProve == "_cannot_prove_continuation"   \* "无法证明可以继续接龙"
MsgMaxRounds == "max_rounds_reached"         \* "达到最大回合数"

NoResult == [winner |-> "none"]

-----------------------------------------------------------------------------
(* The lexicon (chengyu.json / idiom.json are data files, not code): a     *)
(* chain Line(1), ..., Line(MAX_ROUNDS) long enough for a full match, and  *)
(* one phrase Back that leads back to an earlier character.  Away from    *)
(* the chain, phrase FanHead ends with a character that FanSize phrases    *)
(* Fan(1), ..., Fan(FanSize) start with.                                   *)

Line(i) == <<i, i + 1>>
Back == <<3, 2>>
StartLine == <<9, 1>>
StartDead == <<MAX_ROUNDS, MAX_ROUNDS + 1>>

FanSize == 21
Fan(j) == <<40, 40 + j>>
FanHead == <<50, 40>>
FanPrev == <<51, 50>>

_chengyu_set ==
    {Line(i) : i \in 1..MAX_ROUNDS} \cup {Back, StartLine}
        \cup {Fan(j) : j \in 1..FanSize} \cup {FanHead, FanPrev}

\* word -> (first, last) toneless syllable; a syllable is a natural, "" is 0.
\* Characters 2 and 3 are read alike; phrase Back has no transcription.
Syllable(c) == IF c = 3 THEN 2 ELSE c
_pinyin_map == [w \in _chengyu_set \ {Back} |->
                    <<Syllable(w[1]), Syllable(w[Len(w)])>>]
\* word -> (first, last) toned syllable; character 2 is read with tone 1 at
\* the end of Line(1) and with tone 2 at the head of Line(2).
_pinyin_tone_map == [w \in _chengyu_set \ {Back} |->
                    <<IF w = Line(2) THEN 22 ELSE 10 + w[1], 10 + w[Len(w)]>>]

-----------------------------------------------------------------------------
(* src/validator.py *)

LastChar(w) == w[Len(w)]

validate_existence(word) == word \in _chengyu_set

dict_get(map, key) == IF key \in DOMAIN map THEN map[key] ELSE <<0, 0>>

\* the chain condition is not checked
validate_chain_any(word, previous_word, mode) == <<TRUE, "">>

\* returns <<ok, message>>
validate_chain(word, previous_word, mode) ==
    CASE mode = "same_char" ->
            IF word[1] # LastChar(previous_word)
            THEN <<FALSE, MsgFirstCharMismatch>> ELSE <<TRUE, "">>
      [] mode = "homophone" ->
            LET prev_last == dict_get(_pinyin_map, previous_word)[2]
                curr_first == dict_get(_pinyin_map, word)[1]
            IN  IF prev_last = 0 \/ curr_first = 0
                THEN IF word[1] # LastChar(previous_word)
                     THEN <<FALSE, MsgSoundMismatch>> ELSE <<TRUE, "">>
                ELSE IF prev_last # curr_first
                     THEN <<FALSE, MsgSoundMismatch>> ELSE <<TRUE, "">>
      [] mode = "same_char_sound" ->
            LET prev_last_tone == dict_get(_pinyin_tone_map, previous_word)[2]
                curr_first_tone == dict_get(_pinyin_tone_map, word)[1]
            IN  IF word[1] # LastChar(previous_word)
                THEN <<FALSE, MsgFirstCharMismatch>>
                ELSE IF prev_last_tone = 0 \/ curr_first_tone = 0
                     THEN <<TRUE, "">>
                     ELSE IF prev_last_tone # curr_first_tone
                          THEN <<FALSE, MsgToneMismatch>> ELSE <<TRUE, "">>
      [] OTHER ->
            IF word[1] # LastChar(previous_word)
            THEN <<FALSE, MsgFirstCharMismatch>> ELSE <<TRUE, "">>

\* repeated phrases are let through
validate_uniqueness_any(word, used) == TRUE

validate_uniqueness(word, used) == word \notin used

\* the uniqueness check is made before the chain check
validate_idiom_unique_first(word, previous_word, used, mode) ==
    IF ~validate_existence(word)
    THEN <<FALSE, MsgNotInLexicon>>
    ELSE IF ~validate_uniqueness(word, used)
         THEN <<FALSE, MsgAlreadyUsed>>
         ELSE LET chain == validate_chain(word, previous_word, mode)
              IN  IF ~chain[1] THEN <<FALSE, chain[2]>> ELSE <<TRUE, "">>

\* returns <<valid, message>>
validate_idiom(word, previous_word, used, mode) ==
    IF ~validate_existence(word)
    THEN <<FALSE, MsgNotInLexicon>>
    ELSE LET chain == validate_chain(word, previous_word, mode)
         IN  IF ~chain[1]
             THEN <<FALSE, chain[2]>>
             ELSE IF ~validate_uniqueness(word, used)
                  THEN <<FALSE, MsgAlreadyUsed>>
                  ELSE <<TRUE, "">>

-----------------------------------------------------------------------------
(* src/battle.py *)

_player_label(player) == IF player = "A" THEN LabelA ELSE LabelB

\* the turn stays with the same player
_opponent_same(player) == player

_opponent(player) == IF player = "A" THEN "B" ELSE "A"

\* the witness verdict is read the wrong way round
_check_next_word_inverted(lnw, lvp, failed_player, hw, used, default_reason) ==
    IF lnw = Empty \/ lvp = ""
    THEN <<_opponent(failed_player), default_reason>>
    ELSE LET last_word == hw[Len(hw)]
             next_valid == validate_idiom(lnw, last_word, used, "same_char")[1]
         IN  IF ~next_valid
             THEN <<lvp, default_reason>>
             ELSE <<failed_player, _player_label(lvp) \o MsgCannotProve>>

\* an unproven witness is not held against the previous player
_check_next_word_lenient(lnw, lvp, failed_player, hw, used, default_reason) ==
    IF lnw = Empty \/ lvp = ""
    THEN <<_opponent(failed_player), default_reason>>
    ELSE <<lvp, default_reason>>

\* the guard forgets the empty next_word
_check_next_word_unguarded(lnw, lvp, failed_player, hw, used, default_reason) ==
    IF lvp = ""
    THEN <<_opponent(failed_player), default_reason>>
    ELSE LET last_word == hw[Len(hw)]
             next_valid == validate_idiom(lnw, last_word, used, "same_char")[1]
         IN  IF next_valid
             THEN <<lvp, default_reason>>
             ELSE <<failed_player, _player_label(lvp) \o MsgCannotProve>>

\* returns <<winner, reason>>
_check_next_word(lnw, lvp, failed_player, hw, used, default_reason) ==
    IF lnw = Empty \/ lvp = ""
    THEN <<_opponent(failed_player), default_reason>>
    ELSE LET last_word == hw[Len(hw)]
             next_valid == validate_idiom(lnw, last_word, used, "same_char")[1]
         IN  IF next_valid
             THEN <<lvp, default_reason>>
             ELSE <<failed_player, _player_label(lvp) \o MsgCannotProve>>

model_a == "model-a"
model_b == "model-b"
configs(player) == IF player = "A" THEN model_a ELSE model_b

RoundEvent(r, p, w, nw, s, v, m) ==
    [round |-> r, player |-> p, model |-> configs(p), word |-> w,
     next_word |-> nw, success |-> s, valid |-> v, message |-> m]

-----------------------------------------------------------------------------
(* The move source (call_llm) is external: each call raises or returns a   *)
(* claim (word, next_word, success).  Its answers are drawn from every     *)
(* validation class: the empty string, a phrase outside the lexicon that   *)
(* would chain after Line(1), a fixed lexicon phrase, and the lexicon      *)
(* phrases that start with the character the previous phrase ends with.    *)

Bogus == <<2, 0, 3>>

MaxWitnesses == 1

LLMWords(previous_word) ==
    {Empty, Bogus, Line(2)}
        \cup {w \in _chengyu_set : w[1] = LastChar(previous_word)}

Witnessed(records) == {i \in 1..Len(records) : records[i].next_word # Empty}

LLMNextWords(records) ==
    IF Cardinality(Witnessed(records)) < MaxWitnesses
    THEN {Empty, Bogus, Line(2)}
    ELSE {Empty}

StartWords == {StartLine, StartDead}

-----------------------------------------------------------------------------

\* no pure-function call is under way
FnIdle == fcall = [fn |-> "none"]

\* execute_battle is not run through run_battle
StreamIdle == stream = [st |-> "idle", delivered |-> << >>]

\* no tournament is under way
BenchIdle ==
    /\ num_words = 0
    /\ words = << >>
    /\ max_concurrency = 0
    /\ semaphore = 0
    /\ waiters = << >>
    /\ tasks = << >>
    /\ finished = << >>
    /\ saved = 0
    /\ completed = 0
    /\ results = << >>
    /\ events = << >>
    /\ bpc = "idle"

\* the locals of execute_battle at its first round (lines 84-97)
ExecuteBattleInit ==
    /\ FnIdle
    /\ BenchIdle
    /\ start_word \in StartWords
    /\ history_words = << >>
    /\ used_words = {start_word}
    /\ history_records = << >>
    /\ current_player = "A"
    /\ winner = "none"
    /\ reason = ""
    /\ round_num = 0
    /\ last_next_word = Empty
    /\ last_valid_player = ""
    /\ pc = "loop"
    /\ llm_calls = 0
    /\ db = << >>
    /\ result = NoResult

Init == ExecuteBattleInit /\ StreamIdle

previous_word == IF history_words # << >>
                 THEN history_words[Len(history_words)] ELSE start_word

\* range(1, MAX_ROUNDS) : the loop stops one round early
LastRound_short(r) == r = MAX_ROUNDS - 1

\* the loop never runs out
LastRound_never(r) == FALSE

\* r is the last value of range(1, MAX_ROUNDS + 1)
LastRound(r) == r = MAX_ROUNDS

\* One pass of the loop body is enabled while the for loop has a next value.
InLoop == pc = "loop" /\ round_num < MAX_ROUNDS

\* The three failure sites end the loop with the verdict of _check_next_word.
FailTo(event, default_reason, next_pc) ==
    LET verdict == _check_next_word(last_next_word, last_valid_player,
                        current_player, history_words, used_words, default_reason)
    IN  /\ round_num' = round_num + 1
        /\ llm_calls' = llm_calls + 1
        /\ history_records' = Append(history_records, event)
        /\ winner' = verdict[1]
        /\ reason' = verdict[2]
        /\ pc' = next_pc
        /\ UNCHANGED <<start_word, history_words, used_words, current_player,
                       last_next_word, last_valid_player, db, result>>
        /\ UNCHANGED <<fcall, bench_vars, stream>>

\* `continue` in place of `break`: the loop goes on after a failed turn
Fail_continue(event, default_reason) == FailTo(event, default_reason, "loop")

\* the failed attempt joins used_words before the witness is checked
Fail_adds_attempt(event, default_reason) ==
    LET verdict == _check_next_word(last_next_word, last_valid_player,
                        current_player, history_words,
                        used_words \cup {event.word}, default_reason)
    IN  /\ round_num' = round_num + 1
        /\ llm_calls' = llm_calls + 1
        /\ history_records' = Append(history_records, event)
        /\ used_words' = used_words \cup {event.word}
        /\ winner' = verdict[1]
        /\ reason' = verdict[2]
        /\ pc' = "save"
        /\ UNCHANGED <<start_word, history_words, current_player,
                       last_next_word, last_valid_player, db, result>>
        /\ UNCHANGED <<fcall, bench_vars, stream>>

\* `break` (lines 123, 145, 177)
Fail(event, default_reason) == FailTo(event, default_reason, "save")

\* without the except clause the exception leaves execute_battle
LLMRaises_uncaught ==
    /\ InLoop
    /\ round_num' = round_num + 1
    /\ llm_calls' = llm_calls + 1
    /\ pc' = "raised"
    /\ UNCHANGED <<start_word, history_words, used_words, history_records,
                   current_player, winner, reason, last_next_word,
                   last_valid_player, db, result>>
    /\ UNCHANGED <<fcall, bench_vars, stream>>

\* call_llm raises (lines 103-123)
LLMRaises ==
    /\ InLoop
    /\ Fail(RoundEvent(round_num + 1, current_player, Empty, Empty, FALSE, FALSE,
                       MsgLLMCallFailed),
            _player_label(current_player) \o MsgCallFailed)

\* response.success is false (lines 126-145)
Resign ==
    /\ InLoop
    /\ \E word \in LLMWords(previous_word) :
          Fail(RoundEvent(round_num + 1, current_player, word, Empty, FALSE, TRUE, ""),
               _player_label(current_player) \o MsgResigned)

\* no branch of the if/elif chain matches the validator's message
InvalidReason_unmatched(label, message, old_reason) == old_reason

InvalidReason(label, message, old_reason) ==
    IF message = MsgNotInLexicon THEN label \o MsgNotInLexicon
    ELSE IF message = MsgFirstCharMismatch THEN label \o MsgFirstCharMismatch
    ELSE IF message = MsgAlreadyUsed THEN label \o MsgReused
    ELSE old_reason

\* the claimed phrase does not validate (lines 148-177)
InvalidIdiom ==
    /\ InLoop
    /\ \E word \in LLMWords(previous_word), next_word \in LLMNextWords(history_records) :
          LET v == validate_idiom(word, previous_word, used_words, "same_char")
          IN  /\ ~v[1]
              /\ Fail(RoundEvent(round_num + 1, current_player, word, next_word,
                                 TRUE, FALSE, v[2]),
                      InvalidReason(_player_label(current_player), v[2], reason))

\* the claimed phrase validates (lines 148-163, 179-187); after the last
\* round the for loop is exhausted and its else branch declares the draw
ValidIdiom ==
    /\ InLoop
    /\ \E word \in LLMWords(previous_word), next_word \in LLMNextWords(history_records) :
          LET v == validate_idiom(word, previous_word, used_words, "same_char")
          IN  /\ v[1]
              /\ round_num' = round_num + 1
              /\ llm_calls' = llm_calls + 1
              /\ history_records' = Append(history_records,
                     RoundEvent(round_num + 1, current_player, word, next_word,
                                TRUE, TRUE, v[2]))
              /\ last_next_word' = next_word
              /\ last_valid_player' = current_player
              /\ history_words' = Append(history_words, word)
              /\ used_words' = used_words \cup {word}
              /\ current_player' = _opponent(current_player)
              /\ IF LastRound(round_num + 1)
                 THEN winner' = "draw" /\ reason' = MsgMaxRounds /\ pc' = "save"
                 ELSE UNCHANGED <<winner, reason, pc>>
              /\ UNCHANGED <<start_word, db, result>>
              /\ UNCHANGED <<fcall, bench_vars, stream>>

\* the row is stored a second time
Battle_create_twice(rows, sw, history, w, r) ==
    LET row(n) == [id |-> n, model_a_name |-> model_a, model_b_name |-> model_b,
                   start_word |-> sw, history |-> history, winner |-> w,
                   reason |-> r]
    IN  Append(Append(rows, row(Len(rows) + 1)), row(Len(rows) + 2))

\* Battle.create(...): the table with the new row, whose id is the next one
Battle_create(rows, sw, history, w, r) ==
    Append(rows, [id |-> Len(rows) + 1, model_a_name |-> model_a,
                  model_b_name |-> model_b, start_word |-> sw,
                  history |-> history, winner |-> w, reason |-> r])

\* Battle.create returns the stored row; BattleResult is returned (lines 190-207)
BattleCreate ==
    /\ pc = "save"
    /\ db' = Battle_create(db, start_word, history_records, winner, reason)
    /\ result' = [winner |-> winner, reason |-> reason, rounds |-> round_num,
                  history |-> <<start_word>> \o history_words,
                  battle_id |-> Len(db) + 1]
    /\ pc' = "done"
    /\ UNCHANGED <<start_word, history_words, used_words, history_records,
                   current_player, winner, reason, round_num, last_next_word,
                   last_valid_player, llm_calls>>
    /\ UNCHANGED <<fcall, bench_vars, stream>>

\* Battle.create raises: the exception leaves execute_battle (line 190)
BattleCreateRaises ==
    /\ pc = "save"
    /\ pc' = "raised"
    /\ UNCHANGED <<start_word, history_words, used_words, history_records,
                   current_player, winner, reason, round_num, last_next_word,
                   last_valid_player, llm_calls, db, result>>
    /\ UNCHANGED <<fcall, bench_vars, stream>>

Next ==
    \/ LLMRaises
    \/ Resign
    \/ InvalidIdiom
    \/ ValidIdiom
    \/ BattleCreate
    \/ BattleCreateRaises

Spec == Init /\ [][Next]_vars

\* The match under the assumption that the persistence collaborator returns:
\* every awaited call (call_llm, Battle.create) eventually completes.
LiveNext ==
    \/ LLMRaises
    \/ Resign
    \/ InvalidIdiom
    \/ ValidIdiom
    \/ BattleCreate

LiveSpec == Init /\ [][LiveNext]_vars /\ WF_vars(LiveNext)

-----------------------------------------------------------------------------
(* src/battle.py: run_battle.  execute_battle runs as a task; on_round     *)
(* puts every round event on an asyncio.Queue in the step that appends it  *)
(* to history_records, so the events ever queued are history_records and   *)
(* the queue holds those the generator has not yet yielded.                *)

_sse_event(event, data) == [event |-> event, data |-> data]

\* the round events among the events yielded so far
yielded_rounds == SelectSeq(stream.delivered, LAMBDA e : e.event = "round")

\* the content of the asyncio.Queue, oldest first
event_queue == SubSeq(history_records, Len(yielded_rounds) + 1, Len(history_records))

\* the loop is left as soon as the task is done
loop_exits_on_done(done, q) == done

\* `while not task.done() or not queue.empty()` is left (line 226)
loop_exits(done, q) == done /\ q = << >>

ResultEvent(r) ==
    [winner |-> r.winner, reason |-> r.reason, rounds |-> r.rounds,
     history |-> r.history, battle_id |-> r.battle_id]

StreamInit == ExecuteBattleInit /\ stream = [st |-> "open", delivered |-> << >>]

\* queue.get() returns an event and the generator yields it (lines 226-238)
YieldRound ==
    /\ stream.st = "open"
    /\ event_queue # << >>
    /\ stream' = [stream EXCEPT
                     !.delivered = Append(@, _sse_event("round", Head(event_queue)))]
    /\ UNCHANGED <<match_vars, fcall, bench_vars>>

\* the task returned: the result event is yielded, the generator ends
\* (lines 240-249)
YieldResult ==
    /\ stream.st = "open"
    /\ loop_exits(pc \in {"done", "raised"}, event_queue)
    /\ pc = "done"
    /\ stream' = [st |-> "closed",
                  delivered |-> Append(stream.delivered,
                                       _sse_event("result", ResultEvent(result)))]
    /\ UNCHANGED <<match_vars, fcall, bench_vars>>

\* the task raised: task.result() raises out of the generator (line 240)
TaskResultRaises ==
    /\ stream.st = "open"
    /\ loop_exits(pc \in {"done", "raised"}, event_queue)
    /\ pc = "raised"
    /\ stream' = [stream EXCEPT !.st = "raised"]
    /\ UNCHANGED <<match_vars, fcall, bench_vars>>

StreamNext ==
    \/ LLMRaises
    \/ Resign
    \/ InvalidIdiom
    \/ ValidIdiom
    \/ BattleCreate
    \/ BattleCreateRaises
    \/ YieldRound
    \/ YieldResult
    \/ TaskResultRaises

StreamSpec == StreamInit /\ [][StreamNext]_vars

-----------------------------------------------------------------------------
(* src/reward.py: the continuation indexes and count_continuations.        *)
(* idiom.json lists the phrases of chengyu.json with their transcription;  *)
(* phrase Back has an entry with empty first, last and pinyin fields.      *)

_idiom_list == _chengyu_set

\* _by_first_char.get(c, set())
_by_first_char(c) == {w \in _idiom_list : w[1] = c}

\* _by_first_pinyin.get(s, set())
_by_first_pinyin(s) == {w \in _idiom_list : dict_get(_pinyin_map, w)[1] = s}

\* _by_first_char_tone.get((c, t), set()): only entries with pinyin tokens
_by_first_char_tone(c, t) ==
    {w \in _idiom_list : /\ w \in DOMAIN _pinyin_tone_map
                         /\ w[1] = c
                         /\ _pinyin_tone_map[w][1] = t}

candidates_of(word, mode) ==
    LET last_char == LastChar(word)
    IN  CASE mode = "same_char" -> _by_first_char(last_char)
          [] mode = "homophone" ->
                LET last_pinyin == dict_get(_pinyin_map, word)[2]
                IN  IF last_pinyin # 0 THEN _by_first_pinyin(last_pinyin) ELSE {}
          [] mode = "same_char_sound" ->
                LET last_tone == dict_get(_pinyin_tone_map, word)[2]
                IN  IF last_tone # 0 THEN _by_first_char_tone(last_char, last_tone)
                    ELSE {}
          [] OTHER -> _by_first_char(last_char)

\* `&` in place of `-`: the used candidates are counted
count_continuations_used(word, used, mode) ==
    Cardinality(candidates_of(word, mode) \cap used)

count_continuations(word, used, mode) ==
    Cardinality(candidates_of(word, mode) \ used)

-----------------------------------------------------------------------------
(* src/reward.py: parse_llm_response and compute_step_reward.  Rewards are *)
(* counted in tenths of a point: -1.0 is -10, +0.3 is 3.  A response text  *)
(* is a record: kind says what json.loads and the {...} search find in it, *)
(* the other fields are the keys of the JSON object.                       *)

MsgParseFailed == "json_parse_failed"        \* "JSON解析失败"
MsgRewardResigned == "resigned"              \* "认输"

GarbageText == [kind |-> "garbage"]          \* no JSON, no {...} block
NonDictText == [kind |-> "non_dict"]         \* JSON, but a list: no {...} block
EmptyDictText == [kind |-> "empty_dict"]     \* "{}"
DictText(w, nw, s) == [kind |-> "dict", word |-> w, next_word |-> nw, success |-> s]
\* a JSON object inside other text, found by re.search
EmbeddedText(w, nw, s) ==
    [kind |-> "embedded", word |-> w, next_word |-> nw, success |-> s]

\* returns <<parse_ok, parsed>>
parse_llm_response(text) ==
    IF text.kind \in {"garbage", "non_dict"}
    THEN <<FALSE, [word |-> Empty, next_word |-> Empty, success |-> FALSE]>>
    ELSE IF text.kind = "empty_dict"
    THEN <<TRUE, [word |-> Empty, next_word |-> Empty, success |-> FALSE]>>
    ELSE <<TRUE, [word |-> text.word, next_word |-> text.next_word,
                  success |-> text.success]>>

\* the checks run in the order uniqueness, chain, existence, resignation
compliance_chain_reversed(parse_ok, parsed, prev_word, used, mode, fail_penalty) ==
    IF ~parse_ok THEN <<-10, MsgParseFailed, FALSE>>
    ELSE IF parsed.word \in _chengyu_set /\ ~validate_uniqueness(parsed.word, used)
    THEN <<-6, MsgAlreadyUsed, FALSE>>
    ELSE IF parsed.word \in _chengyu_set
              /\ ~validate_chain(parsed.word, prev_word, mode)[1]
    THEN <<-8, validate_chain(parsed.word, prev_word, mode)[2], FALSE>>
    ELSE IF parsed.success /\ ~validate_existence(parsed.word)
    THEN <<-8, MsgNotInLexicon, FALSE>>
    ELSE IF ~parsed.success THEN <<fail_penalty, MsgRewardResigned, FALSE>>
    ELSE <<3, "", TRUE>>

\* lines 180-224: returns <<compliance, reason, valid>>
compliance_chain(parse_ok, parsed, prev_word, used, mode, fail_penalty) ==
    IF ~parse_ok THEN <<-10, MsgParseFailed, FALSE>>
    ELSE IF ~parsed.success THEN <<fail_penalty, MsgRewardResigned, FALSE>>
    ELSE IF ~validate_existence(parsed.word) THEN <<-8, MsgNotInLexicon, FALSE>>
    ELSE LET chain == validate_chain(parsed.word, prev_word, mode)
         IN  IF ~chain[1] THEN <<-8, chain[2], FALSE>>
             ELSE IF ~validate_uniqueness(parsed.word, used)
                  THEN <<-6, MsgAlreadyUsed, FALSE>>
                  ELSE <<3, "", TRUE>>

\* `<` in place of `<=` at both tier limits
strategy_term_strict(cont) ==
    IF cont = 0 THEN 5
    ELSE IF cont < 5 THEN 3
    ELSE IF cont < 20 THEN 1
    ELSE 0

\* lines 231-238
strategy_term(cont) ==
    IF cont = 0 THEN 5
    ELSE IF cont <= 5 THEN 3
    ELSE IF cont <= 20 THEN 1
    ELSE 0

\* the witness is only checked to chain and to exist
foresight_term_chain_only(next_word, word, updated_used, mode) ==
    IF next_word # Empty
    THEN IF validate_existence(next_word) /\ validate_chain(next_word, word, mode)[1]
         THEN 3 ELSE 0
    ELSE 0

\* lines 244-249
foresight_term(next_word, word, updated_used, mode) ==
    IF next_word # Empty
    THEN IF validate_idiom(next_word, word, updated_used, mode)[1] THEN 3 ELSE 0
    ELSE 0

\* the round penalty is left out of the total
total_of_unpenalised(round_penalty, compliance, strategy, foresight) ==
    compliance + strategy + foresight

\* lines 178, 185-251: total = round_penalty, then `total += ...` per term
total_of(round_penalty, compliance, strategy, foresight) ==
    round_penalty + compliance + strategy + foresight

\* returns <<total, info>>
compute_step_reward(text, prev_word, used, rnd, mode, round_penalty, fail_penalty) ==
    LET parse == parse_llm_response(text)
        parsed == parse[2]
        chain == compliance_chain(parse[1], parsed, prev_word, used, mode, fail_penalty)
        valid == chain[3]
        updated_used == used \cup {parsed.word}
        cont == IF valid THEN count_continuations(parsed.word, updated_used, mode)
                ELSE -1
        strategy == IF valid THEN strategy_term(cont) ELSE 0
        foresight == IF valid
                     THEN foresight_term(parsed.next_word, parsed.word,
                                         updated_used, mode)
                     ELSE 0
        total == total_of(round_penalty, chain[1], strategy, foresight)
    IN  <<total,
          [round_num |-> rnd, round_penalty |-> round_penalty,
           compliance |-> chain[1], strategy |-> strategy, foresight |-> foresight,
           total |-> total, valid |-> valid, reason |-> chain[2],
           word |-> parsed.word, continuation_count |-> cont]>>

-----------------------------------------------------------------------------
(* Calls of the pure functions on sampled arguments. *)

Modes == {"same_char", "homophone", "same_char_sound", "unknown_mode"}

FnWords == {Empty, Bogus, StartLine, Back, Line(1), Line(2), Line(3), Line(4)}
FnPrevious == {StartLine, Back, Line(1), Line(2), Line(3)}
FnUsedSets == SUBSET {Bogus, Back, Line(2), Line(3)}

MatchIdle ==
    /\ start_word = StartLine
    /\ history_words = << >>
    /\ used_words = {StartLine}
    /\ history_records = << >>
    /\ current_player = "A"
    /\ winner = "none"
    /\ reason = ""
    /\ round_num = 0
    /\ last_next_word = Empty
    /\ last_valid_player = ""
    /\ pc = "idle"
    /\ llm_calls = 0
    /\ db = << >>
    /\ result = NoResult

FnInit == MatchIdle /\ BenchIdle /\ FnIdle /\ StreamIdle

\* validate_idiom(word, previous_word, used_words, mode); used_after is the
\* caller's set after the call
ValidateIdiomCall ==
    /\ fcall.fn = "none"
    /\ \E word \in FnWords, prev \in FnPrevious, used \in FnUsedSets, mode \in Modes :
          fcall' = [fn |-> "validate_idiom", word |-> word, previous_word |-> prev,
                    used_words |-> used, mode |-> mode,
                    ret |-> validate_idiom(word, prev, used, mode),
                    used_after |-> used]
    /\ UNCHANGED <<match_vars, bench_vars, stream>>

\* count_continuations(word, used_words, mode), and again with a larger set
CountContinuationsCall ==
    /\ fcall.fn = "none"
    /\ \E word \in FnPrevious, used \in FnUsedSets, more \in FnUsedSets, mode \in Modes :
          fcall' = [fn |-> "count_continuations", word |-> word,
                    used_words |-> used, more_used |-> used \cup more, mode |-> mode,
                    ret |-> count_continuations(word, used, mode),
                    ret_more |-> count_continuations(word, used \cup more, mode)]
    /\ UNCHANGED <<match_vars, bench_vars, stream>>

FnNext ==
    \/ ValidateIdiomCall
    \/ CountContinuationsCall

FnSpec == FnInit /\ [][FnNext]_vars

-----------------------------------------------------------------------------
(* Calls of compute_step_reward on sampled arguments. *)

RewardWords == {Empty, Bogus, Line(2), Line(3), Back, FanHead}
RewardNextWords == {Empty, Bogus, Line(3), Back, Fan(1)}
RewardTexts ==
    {GarbageText, NonDictText, EmptyDictText}
        \cup {DictText(w, nw, s) :
                w \in RewardWords, nw \in RewardNextWords, s \in BOOLEAN}
        \cup {EmbeddedText(w, nw, s) :
                w \in RewardWords, nw \in RewardNextWords, s \in BOOLEAN}
RewardPrevious == {Line(1), Line(2), FanPrev}

\* the first k phrases of the fan
FanUsed(k) == {Fan(j) : j \in 1..k}

RewardUsedSets ==
    {{}, {Line(2)}, {Line(3)}, {Back}, {Line(2), Back}, {Bogus, Line(2), Line(3)},
     FanUsed(1), FanUsed(FanSize - 6), FanUsed(FanSize - 5), FanUsed(FanSize)}

\* round_penalty and fail_penalty, in tenths
RoundPenalties == {-1, 0}
FailPenalties == {-10, -5}

\* battle.py after w was accepted from the used-set `used` and the next turn
\* of the opponent failed: the verdict on next_word x of w's player "A"
live_verdict(used, w, x) ==
    _check_next_word(x, "A", "B", <<w>>, used \cup {w}, "failed")

\* compute_step_reward(response_text, previous_word, used_words, round_num,
\* mode, round_penalty=, fail_penalty=); beside the call are kept the same
\* call for the next round, the call for a response that names a phrase
\* outside the lexicon, and the live match's verdict on the witness
ComputeStepRewardCall ==
    /\ fcall.fn = "none"
    /\ \E text \in RewardTexts, prev \in RewardPrevious, used \in RewardUsedSets,
          mode \in Modes, rp \in RoundPenalties, fp \in FailPenalties :
          LET ret == compute_step_reward(text, prev, used, 1, mode, rp, fp)
          IN  fcall' = [fn |-> "compute_step_reward", text |-> text,
                        previous_word |-> prev, used_words |-> used, mode |-> mode,
                        round_penalty |-> rp, fail_penalty |-> fp,
                        ret |-> ret,
                        ret_next_round |->
                            compute_step_reward(text, prev, used, 2, mode, rp, fp),
                        ret_not_in_lexicon |->
                            compute_step_reward(DictText(Bogus, Empty, TRUE), prev,
                                                used, 1, mode, rp, fp),
                        live |-> IF ret[2].valid
                                 THEN live_verdict(used, ret[2].word,
                                                   parse_llm_response(text)[2].next_word)
                                 ELSE <<"none", "">>,
                        used_after |-> used]
    /\ UNCHANGED <<match_vars, bench_vars, stream>>

RewardNext == ComputeStepRewardCall

RewardSpec == FnInit /\ [][RewardNext]_vars

-----------------------------------------------------------------------------
(* src/benchmark.py: run_benchmark and _run_single_benchmark_battle.       *)
(* A task is one scheduled match; its st is                                *)
(*   "new"      created, first step not yet run                            *)
(*   "waiting"  suspended in semaphore.acquire()                           *)
(*   "battle"   inside execute_battle's turn loop (a call_llm in flight)   *)
(*   "save"     the turn loop has ended, Battle.create in flight           *)
(*   "returned" / "raised"  the task is done                               *)

min(a, b) == IF a <= b THEN a ELSE b

get_chengyu_list == _chengyu_set

\* random.sample(pool, k): any list of k distinct elements of pool
sample(pool, k) ==
    {s \in [1..k -> pool] : \A i, j \in 1..k : i # j => s[i] # s[j]}

_select_random_words(n) ==
    LET pool == get_chengyu_list
    IN  sample(pool, min(n, Cardinality(pool)))

\* request.num_words, request.max_concurrency, and the phrases drawn
NumWords == {1, 2}
Concurrency == {1, 2}
BenchPool == {StartLine, Line(1)}

NoEntry == [winner |-> "none"]

\* asyncio.create_task(_run_single_benchmark_battle(model_a, model_b, word, first, semaphore))
create_task(word, first) ==
    [start_word |-> word, first_player |-> first, st |-> "new",
     raw |-> NoResult, ret |-> NoEntry]

\* for word in words: for first in ("A", "B"): tasks.append(task)
create_tasks(ws) ==
    [i \in 1..(2 * Len(ws)) |->
        create_task(ws[(i + 1) \div 2], IF i % 2 = 1 THEN "A" ELSE "B")]

\* What execute_battle hands to Battle.create when its turn loop ends:
\* a failed first turn, a failed second turn ruled for the opponent, a failed
\* second turn reversed, and the round limit.
BattleOutcomes ==
    {[winner |-> _opponent("A"), reason |-> _player_label("A") \o MsgCallFailed,
      rounds |-> 1],
     [winner |-> _opponent("B"), reason |-> _player_label("B") \o MsgResigned,
      rounds |-> 2],
     [winner |-> "B", reason |-> _player_label("A") \o MsgCannotProve,
      rounds |-> 2],
     [winner |-> "draw", reason |-> MsgMaxRounds, rounds |-> MAX_ROUNDS]}

\* the raw winner is kept as it is
winner_of_swapped_raw(raw_winner) == raw_winner

\* lines 42-47: the winner of a match played with the models swapped
winner_of_swapped(raw_winner) ==
    IF raw_winner = "A" THEN "B"
    ELSE IF raw_winner = "B" THEN "A"
    ELSE "draw"

\* lines 35-56
BenchmarkBattleResult(word, first, raw, battle_id) ==
    [start_word |-> word,
     first_player |-> first,
     winner |-> IF first = "A" THEN raw.winner ELSE winner_of_swapped(raw.winner),
     reason |-> raw.reason,
     rounds |-> raw.rounds,
     battle_id |-> battle_id]

\* the semaphore hands out a slot although none is free
locked_never(value, queue) == FALSE

\* asyncio.Semaphore.locked(): no free slot, or a task is already waiting
locked(value, queue) == value = 0 \/ queue # << >>

BenchmarkProgressEvent(n, total, entry) ==
    [event |-> "progress", completed |-> n, total |-> total,
     current_result |-> entry]

\* Python's < on str, phrases being sequences of characters
RECURSIVE str_less(_, _)
str_less(a, b) ==
    IF a = << >> THEN b # << >>
    ELSE IF b = << >> THEN FALSE
    ELSE IF a[1] # b[1] THEN a[1] < b[1]
    ELSE str_less(Tail(a), Tail(b))

\* key=lambda r: (r.start_word, r.first_player), compared as tuples
key_less(r, s) ==
    \/ str_less(r.start_word, s.start_word)
    \/ /\ r.start_word = s.start_word
       /\ r.first_player = "A"
       /\ s.first_player = "B"

RECURSIVE insert(_, _)
insert(r, list) ==
    IF list = << >> THEN <<r>>
    ELSE IF key_less(r, Head(list)) THEN <<r>> \o list
    ELSE <<Head(list)>> \o insert(r, Tail(list))

\* the entries in the order they were completed
sorted_battles_as_completed(rs) == rs

\* sorted(results, key=...): a stable sort
RECURSIVE sorted_battles(_)
sorted_battles(rs) ==
    IF rs = << >> THEN << >>
    ELSE insert(rs[Len(rs)], sorted_battles(SubSeq(rs, 1, Len(rs) - 1)))

\* sum(1 for r in rs if r.winner == w)
RECURSIVE count_winner(_, _)
count_winner(rs, w) ==
    IF rs = << >> THEN 0
    ELSE (IF Head(rs).winner = w THEN 1 ELSE 0) + count_winner(Tail(rs), w)

\* [r for r in results if r.first_player == first]
first_entries(rs, first) ==
    IF first = "A" THEN SelectSeq(rs, LAMBDA r : r.first_player = "A")
    ELSE SelectSeq(rs, LAMBDA r : r.first_player = "B")

\* wins / total if total > 0 else 0, kept as the fraction <<wins, total>>
win_rate(wins, total) == IF total > 0 THEN <<wins, total>> ELSE <<0, 1>>

\* every first-player count is taken over all entries
BenchmarkSummaryEvent_unsplit(rs, total) ==
    [event |-> "summary", total_battles |-> total,
     model_a_name |-> model_a, model_b_name |-> model_b,
     model_a_wins |-> count_winner(rs, "A"),
     model_b_wins |-> count_winner(rs, "B"),
     draws |-> count_winner(rs, "draw"),
     model_a_win_rate |-> win_rate(count_winner(rs, "A"), total),
     model_b_win_rate |-> win_rate(count_winner(rs, "B"), total),
     model_a_first_wins |-> count_winner(rs, "A"),
     model_a_first_losses |-> count_winner(rs, "B"),
     model_a_first_draws |-> count_winner(rs, "draw"),
     model_b_first_wins |-> count_winner(rs, "B"),
     model_b_first_losses |-> count_winner(rs, "A"),
     model_b_first_draws |-> count_winner(rs, "draw"),
     battles |-> sorted_battles(rs)]

\* lines 97-130
BenchmarkSummaryEvent(rs, total) ==
    LET a_first == first_entries(rs, "A")
        b_first == first_entries(rs, "B")
    IN  [event |-> "summary", total_battles |-> total,
         model_a_name |-> model_a, model_b_name |-> model_b,
         model_a_wins |-> count_winner(rs, "A"),
         model_b_wins |-> count_winner(rs, "B"),
         draws |-> count_winner(rs, "draw"),
         model_a_win_rate |-> win_rate(count_winner(rs, "A"), total),
         model_b_win_rate |-> win_rate(count_winner(rs, "B"), total),
         model_a_first_wins |-> count_winner(a_first, "A"),
         model_a_first_losses |-> count_winner(a_first, "B"),
         model_a_first_draws |-> count_winner(a_first, "draw"),
         model_b_first_wins |-> count_winner(b_first, "B"),
         model_b_first_losses |-> count_winner(b_first, "A"),
         model_b_first_draws |-> count_winner(b_first, "draw"),
         battles |-> sorted_battles(rs)]

BenchInit == MatchIdle /\ FnIdle /\ BenchIdle /\ StreamIdle

\* run_benchmark, lines 67-83
RunBenchmark ==
    /\ bpc = "idle"
    /\ \E n \in NumWords, k \in Concurrency :
        \E ws \in {s \in _select_random_words(n) :
                        \A i \in 1..Len(s) : s[i] \in BenchPool} :
            /\ num_words' = n
            /\ max_concurrency' = k
            /\ words' = ws
            /\ semaphore' = k
            /\ tasks' = create_tasks(ws)
    /\ bpc' = "running"
    /\ UNCHANGED <<waiters, finished, saved, completed, results, events>>
    /\ UNCHANGED <<match_vars, fcall, stream>>

\* every task has run its first step; the tasks take it in creation order,
\* before any suspended call is resumed
Started == \A j \in 1..Len(tasks) : tasks[j].st # "new"

\* first step of a task: `async with semaphore` (line 34) up to the first
\* call_llm of execute_battle, or suspension in acquire()
TaskStart(i) ==
    /\ i \in 1..Len(tasks)
    /\ tasks[i].st = "new"
    /\ \A j \in 1..(i - 1) : tasks[j].st # "new"
    /\ IF ~locked(semaphore, waiters)
       THEN /\ semaphore' = semaphore - 1
            /\ tasks' = [tasks EXCEPT ![i].st = "battle"]
            /\ UNCHANGED waiters
       ELSE /\ waiters' = Append(waiters, i)
            /\ tasks' = [tasks EXCEPT ![i].st = "waiting"]
            /\ UNCHANGED semaphore
    /\ UNCHANGED <<num_words, words, max_concurrency, finished, saved, completed,
                   results, events, bpc>>
    /\ UNCHANGED <<match_vars, fcall, stream>>

\* a released slot wakes the longest-waiting task, which enters execute_battle
Admit ==
    /\ Started
    /\ waiters # << >>
    /\ semaphore > 0
    /\ semaphore' = semaphore - 1
    /\ waiters' = Tail(waiters)
    /\ tasks' = [tasks EXCEPT ![Head(waiters)].st = "battle"]
    /\ UNCHANGED <<num_words, words, max_concurrency, finished, saved, completed,
                   results, events, bpc>>
    /\ UNCHANGED <<match_vars, fcall, stream>>

\* the slot is released when a call of the move source completes
slot_after_call_released(value) == value + 1

\* the semaphore's value when a call of the move source has completed: the
\* call is made inside `async with semaphore` (line 34), nothing is released
slot_after_call(value) == value

\* execute_battle's turn loop of task i ends (battle.py lines 93-187)
BattleEnds(i) ==
    /\ Started
    /\ i \in 1..Len(tasks)
    /\ tasks[i].st = "battle"
    /\ \E o \in BattleOutcomes :
          tasks' = [tasks EXCEPT ![i].st = "save", ![i].raw = o]
    /\ semaphore' = slot_after_call(semaphore)
    /\ UNCHANGED <<num_words, words, max_concurrency, waiters, finished,
                   saved, completed, results, events, bpc>>
    /\ UNCHANGED <<match_vars, fcall, stream>>

\* Battle.create returns; execute_battle returns, the task builds its entry,
\* leaves `async with` and is done
SaveReturns(i) ==
    /\ i \in 1..Len(tasks)
    /\ tasks[i].st = "save"
    /\ saved' = saved + 1
    /\ tasks' = [tasks EXCEPT
                    ![i].st = "returned",
                    ![i].ret = BenchmarkBattleResult(tasks[i].start_word,
                                   tasks[i].first_player, tasks[i].raw, saved + 1)]
    /\ semaphore' = semaphore + 1
    /\ finished' = Append(finished, i)
    /\ UNCHANGED <<num_words, words, max_concurrency, waiters, completed, results,
                   events, bpc>>
    /\ UNCHANGED <<match_vars, fcall, stream>>

\* Battle.create raises: the exception leaves execute_battle and the task
SaveRaises(i) ==
    /\ i \in 1..Len(tasks)
    /\ tasks[i].st = "save"
    /\ tasks' = [tasks EXCEPT ![i].st = "raised"]
    /\ semaphore' = semaphore + 1
    /\ finished' = Append(finished, i)
    /\ UNCHANGED <<num_words, words, max_concurrency, waiters, saved, completed,
                   results, events, bpc>>
    /\ UNCHANGED <<match_vars, fcall, stream>>

\* one pass of `for coro in asyncio.as_completed(tasks)` (lines 85-95):
\* `await coro` returns the entry of the next finished task or re-raises
AsCompleted ==
    /\ bpc = "running"
    /\ completed < Len(finished)
    /\ LET task == tasks[finished[completed + 1]]
       IN  IF task.st = "returned"
           THEN /\ completed' = completed + 1
                /\ results' = Append(results, task.ret)
                /\ events' = Append(events,
                       BenchmarkProgressEvent(completed + 1, Len(tasks), task.ret))
                /\ UNCHANGED bpc
           ELSE /\ bpc' = "aborted"
                /\ UNCHANGED <<completed, results, events>>
    /\ UNCHANGED <<num_words, words, max_concurrency, semaphore, waiters, tasks,
                   finished, saved>>
    /\ UNCHANGED <<match_vars, fcall, stream>>

\* lines 97-131, after the loop has gone through every task
Summary ==
    /\ bpc = "running"
    /\ completed = Len(tasks)
    /\ events' = Append(events, BenchmarkSummaryEvent(results, Len(tasks)))
    /\ bpc' = "done"
    /\ UNCHANGED <<num_words, words, max_concurrency, semaphore, waiters, tasks,
                   finished, saved, completed, results>>
    /\ UNCHANGED <<match_vars, fcall, stream>>

\* the positions a task can have in `tasks`
TaskIds == 1..(2 * Cardinality(BenchPool))

BenchNext ==
    \/ RunBenchmark
    \/ \E i \in TaskIds : TaskStart(i)
    \/ Admit
    \/ \E i \in TaskIds : BattleEnds(i)
    \/ \E i \in TaskIds : SaveReturns(i)
    \/ \E i \in TaskIds : SaveRaises(i)
    \/ AsCompleted
    \/ Summary

BenchSpec == BenchInit /\ [][BenchNext]_vars

\* The event loop runs every ready task and callback, and every awaited
\* call_llm and Battle.create returns or raises; a match's turn loop ends
\* because of the round limit.  No step of the tournament can be repeated,
\* so fairness of the next-state relation is fairness of every step.
BenchLiveSpec == BenchInit /\ [][BenchNext]_vars /\ WF_vars(BenchNext)

\* the tournament when the persistence collaborator never raises
BenchOkNext ==
    \/ RunBenchmark
    \/ \E i \in TaskIds : TaskStart(i)
    \/ Admit
    \/ \E i \in TaskIds : BattleEnds(i)
    \/ \E i \in TaskIds : SaveReturns(i)
    \/ AsCompleted
    \/ Summary

BenchOkSpec == BenchInit /\ [][BenchOkNext]_vars /\ WF_vars(BenchOkNext)

-----------------------------------------------------------------------------
(* Vocabulary of the properties.  The legality of a phrase is spelled out  *)
(* here from the rules of the game, not through the validator.             *)

Terminal == pc \in {"save", "done", "raised"}

LastRecord == history_records[Len(history_records)]

\* the match ended because the player of the last turn failed it
FailedTurn ==
    /\ Terminal
    /\ history_records # << >>
    /\ ~(LastRecord.success /\ LastRecord.valid)

FailedPlayer == LastRecord.player
Other(p) == IF p = "A" THEN "B" ELSE "A"
Label(p) == IF p = "A" THEN "ModelA" ELSE "ModelB"

\* the phrase the failed turn had to continue
LastAccepted == IF history_words = << >> THEN start_word
                ELSE history_words[Len(history_words)]

Chains(w, prev) == w # << >> /\ prev # << >> /\ w[1] = prev[Len(prev)]

\* the failing player's own failure reason
OwnReason ==
    LET r == LastRecord
    IN  IF ~r.success /\ ~r.valid THEN Label(r.player) \o "_call_failed"
        ELSE IF ~r.success THEN Label(r.player) \o "_resigned"
        ELSE IF r.word \notin _chengyu_set THEN Label(r.player) \o "_not_in_lexicon"
        ELSE IF ~Chains(r.word, LastAccepted)
             THEN Label(r.player) \o "_first_char_mismatch"
        ELSE Label(r.player) \o "_reused"

\* the witness of the last accepted turn is a legal continuation of it
WitnessLegal ==
    /\ last_next_word \in _chengyu_set
    /\ Chains(last_next_word, LastAccepted)
    /\ last_next_word \notin used_words

\* the verdict, as decided and as returned
Reported(w, r) ==
    /\ winner = w
    /\ reason = r
    /\ pc = "done" => result.winner = w /\ result.reason = r

Range(seq) == {seq[i] : i \in 1..Len(seq)}

-----------------------------------------------------------------------------

\* C1: when a player fails a turn and the previous accepted turn supplied a
\* non-empty next_word that is not a legal continuation (not in the lexicon,
\* chain mismatch, or already used), the failing player wins and the reason
\* names the previous player as unable to prove a continuation.
C1_ReversalOnIllegalWitness ==
    (FailedTurn /\ history_words # << >> /\ last_next_word # << >> /\ ~WitnessLegal)
        => /\ Reported(FailedPlayer, Label(Other(FailedPlayer)) \o "_cannot_prove_continuation")
           /\ reason # OwnReason

C1_Witness ==
    /\ pc = "done"
    /\ FailedTurn /\ history_words # << >> /\ last_next_word # << >> /\ ~WitnessLegal
    /\ last_next_word \in _chengyu_set
    /\ Chains(last_next_word, LastAccepted)

\* C2: when a player fails a turn and the previous accepted turn's non-empty
\* next_word is a legal continuation, the opponent wins and the reason is the
\* failing player's own failure reason.
C2_NoReversalOnLegalWitness ==
    (FailedTurn /\ history_words # << >> /\ last_next_word # << >> /\ WitnessLegal)
        => Reported(Other(FailedPlayer), OwnReason)

C2_Witness ==
    /\ pc = "done"
    /\ FailedTurn /\ history_words # << >> /\ last_next_word # << >> /\ WitnessLegal
    /\ LastRecord.success

\* C3: a failure on round 1, or after an accepted turn with an empty next_word
\* (even if an earlier accepted turn supplied one), is won by the opponent with
\* the failing player's own reason.
C3_NaiveRulingWithoutWitness ==
    (FailedTurn /\ (history_words = << >> \/ last_next_word = << >>))
        => Reported(Other(FailedPlayer), OwnReason)

C3_Witness ==
    /\ pc = "done"
    /\ FailedTurn /\ last_next_word = << >>
    /\ \E i \in 1..Len(history_records) :
          /\ history_records[i].valid /\ history_records[i].success
          /\ history_records[i].next_word # << >>

\* C4: the move source is called at most 30 times, rounds <= 30, and the match
\* is a draw with the round-limit reason exactly when 30 turns were accepted.
C4_RoundCap ==
    /\ llm_calls <= 30
    /\ round_num <= 30
    /\ pc = "done" => result.rounds <= 30
    /\ winner = "draw" <=> Len(history_words) = 30
    /\ reason = "max_rounds_reached" <=> Len(history_words) = 30
    /\ pc = "done" => (result.winner = "draw" <=> Len(result.history) = 31)

C4_Witness == pc = "done" /\ result.winner = "draw" /\ llm_calls = 30

\* C5: if every awaited call completes, the match eventually returns a result
\* whose winner is A, B or draw.
C5_Termination == <>(pc = "done" /\ result.winner \in {"A", "B", "draw"})

C5_Witness == pc = "done" /\ result.winner = "draw" /\ result.rounds = 30

\* C6: used_words = {start_word} \cup the phrases of history_words;
\* history_words has no phrase twice and never holds start_word.
C6_UsedWordsInvariant ==
    /\ used_words = {start_word} \cup Range(history_words)
    /\ \A i, j \in 1..Len(history_words) :
          history_words[i] = history_words[j] => i = j
    /\ start_word \notin Range(history_words)
    /\ pc = "done" => result.history = <<start_word>> \o history_words

C6_Witness == pc = "done" /\ Len(history_words) >= 3 /\ Back \in used_words

\* C7: every accepted phrase is in the lexicon and its first character is the
\* last character of the phrase before it (start_word for the first).
C7_LegalChain ==
    /\ \A i \in 1..Len(history_words) :
          /\ history_words[i] \in _chengyu_set
          /\ Chains(history_words[i],
                    IF i = 1 THEN start_word ELSE history_words[i - 1])
    /\ pc = "done" =>
          /\ result.history[1] = start_word
          /\ \A i \in 2..Len(result.history) :
                /\ result.history[i] \in _chengyu_set
                /\ Chains(result.history[i], result.history[i - 1])
                /\ \A j \in 1..(i - 1) : result.history[j] # result.history[i]

C7_Witness == pc = "done" /\ Len(result.history) >= 5 /\ result.winner # "draw"

\* C8: an exception of the move source is caught: it is recorded as one round
\* record (success = false, valid = false, empty phrase), the reversal check
\* decides a winner in {A, B}, the match ends on that turn, and the exception
\* does not leave execute_battle.  On round 1 the winner is B, rounds = 1 and
\* history = [start_word].
CallFailed ==
    /\ history_records # << >>
    /\ ~LastRecord.success /\ ~LastRecord.valid

C8_MoveSourceFailureContained ==
    /\ llm_calls = Len(history_records)
    /\ pc = "raised" => winner \in {"A", "B", "draw"}
    /\ \A i \in 1..Len(history_records) :
          (~history_records[i].success /\ ~history_records[i].valid)
             => /\ i = Len(history_records)
                /\ history_records[i].word = << >>
                /\ history_records[i].round = round_num
                /\ history_records[i].player = current_player
                /\ Terminal
                /\ winner \in {"A", "B"}
                /\ winner = (IF history_words # << >> /\ last_next_word # << >>
                                 /\ ~WitnessLegal
                             THEN current_player ELSE Other(current_player))
    /\ (CallFailed /\ round_num = 1)
          => /\ winner = "B"
             /\ pc = "done" => /\ result.winner = "B"
                               /\ result.rounds = 1
                               /\ result.history = <<start_word>>

C8_Witness == pc = "done" /\ CallFailed /\ round_num = 1 /\ result.winner = "B"

\* C9: the move source is called exactly once per turn: calls = round records
\* = rounds, and no call is made after a failed turn.
C9_NoRetry ==
    /\ llm_calls = Len(history_records)
    /\ llm_calls = round_num
    /\ \A i \in 1..Len(history_records) :
          /\ history_records[i].round = i
          /\ ~(history_records[i].success /\ history_records[i].valid)
                => i = Len(history_records)
    /\ pc = "done" => result.rounds = llm_calls

C9_Witness == pc = "done" /\ FailedTurn /\ result.rounds = 3 /\ llm_calls = 3

\* C10: every terminal outcome carries a non-empty reason.
C10_ReasonNonEmpty ==
    /\ Terminal => reason # ""
    /\ pc = "done" => result.reason # ""

C10_Witness ==
    /\ pc = "done" /\ FailedTurn /\ LastRecord.success
    /\ result.reason = "ModelB_reused"

-----------------------------------------------------------------------------
(* The chain rule of each mode, from the rules of the game: the syllable   *)
(* of a character is unknown when the phrase has no transcription.         *)

TonelessFirst(w) == IF w \in DOMAIN _pinyin_map THEN _pinyin_map[w][1] ELSE 0
TonelessLast(w) == IF w \in DOMAIN _pinyin_map THEN _pinyin_map[w][2] ELSE 0
TonedFirst(w) == IF w \in DOMAIN _pinyin_tone_map THEN _pinyin_tone_map[w][1] ELSE 0
TonedLast(w) == IF w \in DOMAIN _pinyin_tone_map THEN _pinyin_tone_map[w][2] ELSE 0

ChainsUnder(mode, prev, cand) ==
    IF mode = "homophone"
    THEN IF TonelessLast(prev) = 0 \/ TonelessFirst(cand) = 0
         THEN Chains(cand, prev)
         ELSE TonelessFirst(cand) = TonelessLast(prev)
    ELSE IF mode = "same_char_sound"
    THEN /\ Chains(cand, prev)
         /\ (TonedLast(prev) # 0 /\ TonedFirst(cand) # 0)
               => TonedFirst(cand) = TonedLast(prev)
    ELSE Chains(cand, prev)

ChainMessages == {"_first_char_mismatch", "_first_sound_mismatch", "_first_tone_mismatch"}

\* C11: validate_idiom reports NotInLexicon whenever the candidate is not in
\* the lexicon, the chain-mismatch reason when it is in the lexicon but does
\* not chain, AlreadyUsed only when it is in the lexicon, chains and is used,
\* and succeeds otherwise; the used-set is not changed by the call.
C11_ValidationPriority ==
    fcall.fn = "validate_idiom" =>
        LET c == fcall.word
            inlex == c \in _chengyu_set
            chain == inlex /\ ChainsUnder(fcall.mode, fcall.previous_word, c)
            used == c \in fcall.used_words
        IN  /\ ~inlex => fcall.ret = <<FALSE, "_not_in_lexicon">>
            /\ (inlex /\ ~chain) => (~fcall.ret[1] /\ fcall.ret[2] \in ChainMessages)
            /\ (chain /\ used) => fcall.ret = <<FALSE, "_already_used">>
            /\ (chain /\ ~used) => fcall.ret = <<TRUE, "">>
            /\ fcall.used_after = fcall.used_words

C11_Witness ==
    /\ fcall.fn = "validate_idiom"
    /\ fcall.mode = "homophone"
    /\ fcall.word \in _chengyu_set
    /\ fcall.word \in fcall.used_words
    /\ ~ChainsUnder(fcall.mode, fcall.previous_word, fcall.word)
    /\ fcall.ret = <<FALSE, "_first_sound_mismatch">>

\* C12: for each of the three modes, count_continuations(p, U, m) is the
\* number of lexicon phrases c for which validate_idiom(c, p, U, m) succeeds,
\* also when a syllable of p or of c is unknown.
C12_CountMatchesValidation ==
    (fcall.fn = "count_continuations"
        /\ fcall.mode \in {"same_char", "homophone", "same_char_sound"})
      => fcall.ret = Cardinality({c \in _chengyu_set :
                validate_idiom(c, fcall.word, fcall.used_words, fcall.mode)[1]})

\* C13: count_continuations does not grow when the used-set grows.
C13_CountMonotone ==
    fcall.fn = "count_continuations" => fcall.ret_more <= fcall.ret

C13_Witness ==
    /\ fcall.fn = "count_continuations"
    /\ fcall.mode = "homophone"
    /\ fcall.ret_more < fcall.ret
    /\ fcall.ret_more > 0

-----------------------------------------------------------------------------
(* Tournament properties *)

Stopped == bpc \in {"done", "aborted"}

\* C14: the tournament schedules one match for each (phrase, first player)
\* of n = min(num_words, lexicon size) distinct phrases; the events are
\* progress events numbered 1, 2, ..., each with total = 2n, followed only by
\* one summary with total_battles = 2n; and a tournament that has ended has
\* emitted all 2n progress events and the summary.
C14_EventStream ==
    bpc # "idle" =>
        LET n == Len(words)
        IN  /\ n = min(num_words, Cardinality(_chengyu_set))
            /\ \A i, j \in 1..n : i # j => words[i] # words[j]
            /\ Len(tasks) = 2 * n
            /\ \A k \in 1..n : \A f \in {"A", "B"} :
                 Cardinality({i \in 1..Len(tasks) :
                                 /\ tasks[i].start_word = words[k]
                                 /\ tasks[i].first_player = f}) = 1
            /\ Len(events) <= 2 * n + 1
            /\ \A j \in 1..Len(events) :
                 IF j <= 2 * n
                 THEN /\ events[j].event = "progress"
                      /\ events[j].completed = j
                      /\ events[j].total = 2 * n
                 ELSE /\ events[j].event = "summary"
                      /\ events[j].total_battles = 2 * n
            /\ Stopped => Len(events) = 2 * n + 1


TaskRange == 1..Len(tasks)

\* the model that sat in seat `seat` of the match of a task with the given
\* first player: execute_battle(model_a, model_b) or (model_b, model_a)
SeatModel(first, seat) ==
    IF first = "A" THEN configs(seat) ELSE configs(_opponent(seat))

\* C15: the winner of every tournament entry names, in the tournament's
\* own labelling, the model that won the raw match; a raw draw stays a draw;
\* and when the two matches of a phrase have raw winners A (first_player A)
\* and B (first_player B), both entries name the same model.
C15_RoleNormalization ==
    /\ \A i \in TaskRange :
         tasks[i].st = "returned" =>
            LET t == tasks[i]
            IN  /\ t.ret.winner \in {"A", "B", "draw"}
                /\ (t.ret.winner = "draw") <=> (t.raw.winner = "draw")
                /\ t.raw.winner # "draw" =>
                      configs(t.ret.winner) = SeatModel(t.first_player, t.raw.winner)
                /\ t.first_player = "A" => t.ret.winner = t.raw.winner
    /\ \A i, j \in TaskRange :
         (/\ tasks[i].st = "returned" /\ tasks[j].st = "returned"
          /\ tasks[i].start_word = tasks[j].start_word
          /\ tasks[i].first_player = "A" /\ tasks[j].first_player = "B"
          /\ tasks[i].raw.winner = "A" /\ tasks[j].raw.winner = "B")
            => tasks[i].ret.winner = "A" /\ tasks[j].ret.winner = "A"

C15_Witness ==
    \E i, j \in TaskRange :
        /\ tasks[i].st = "returned" /\ tasks[j].st = "returned"
        /\ tasks[i].start_word = tasks[j].start_word
        /\ tasks[i].first_player = "A" /\ tasks[j].first_player = "B"
        /\ tasks[i].raw.winner = "A" /\ tasks[j].raw.winner = "B"
        /\ tasks[j].ret.winner = "A"

Admitted == {i \in TaskRange : tasks[i].st \in {"battle", "save"}}
InFlight == {i \in TaskRange : tasks[i].st = "battle"}

\* C16: never more than max_concurrency matches between acquiring the
\* semaphore and completing, hence never more than max_concurrency calls
\* of the move source in flight.
C16_BoundedConcurrency ==
    bpc # "idle" =>
        /\ Cardinality(Admitted) <= max_concurrency
        /\ Cardinality(InFlight) <= max_concurrency

C16_Witness ==
    /\ max_concurrency = 2
    /\ Cardinality(InFlight) = 2
    /\ Len(waiters) = 2
    /\ Len(finished) = 0

\* C17: when every awaited call returns or raises, every match waiting for
\* the semaphore is admitted and completes, and the tournament emits its
\* summary.
C17_FairCompletion ==
    /\ \A i \in TaskIds :
         (i \in TaskRange /\ tasks[i].st = "waiting")
            ~> (i \in TaskRange /\ tasks[i].st \in {"returned", "raised"})
    /\ (bpc = "running") ~> (bpc = "done")

\* C18: no failure inside one match ends the tournament: no task ends with
\* an exception and the event stream is never cut short.
C18_FailuresFolded ==
    /\ \A i \in TaskRange : tasks[i].st # "raised"
    /\ bpc # "aborted"

\* the number of tasks started with first player f whose entry names w
Entries(f, w) ==
    Cardinality({i \in TaskRange : /\ tasks[i].st = "returned"
                                   /\ tasks[i].first_player = f
                                   /\ tasks[i].ret.winner = w})

SummaryEvent == events[Len(events)]

\* C19: in the summary the three totals add up to total_battles; the
\* first-player counts for A are the entries with first player A won by A,
\* by B and drawn, and add up to n; those for B are the entries with first
\* player B won by B, by A and drawn, and add up to n; each win rate is the
\* side's wins over total_battles.
C19_AggregationExact ==
    bpc = "done" =>
        LET s == SummaryEvent
            n == Len(words)
        IN  /\ s.model_a_wins + s.model_b_wins + s.draws = s.total_battles
            /\ s.model_a_wins = Entries("A", "A") + Entries("B", "A")
            /\ s.model_b_wins = Entries("A", "B") + Entries("B", "B")
            /\ s.draws = Entries("A", "draw") + Entries("B", "draw")
            /\ s.model_a_first_wins = Entries("A", "A")
            /\ s.model_a_first_losses = Entries("A", "B")
            /\ s.model_a_first_draws = Entries("A", "draw")
            /\ s.model_a_first_wins + s.model_a_first_losses
                  + s.model_a_first_draws = n
            /\ s.model_b_first_wins = Entries("B", "B")
            /\ s.model_b_first_losses = Entries("B", "A")
            /\ s.model_b_first_draws = Entries("B", "draw")
            /\ s.model_b_first_wins + s.model_b_first_losses
                  + s.model_b_first_draws = n
            /\ s.model_a_win_rate = <<s.model_a_wins, s.total_battles>>
            /\ s.model_b_win_rate = <<s.model_b_wins, s.total_battles>>

C19_Witness ==
    /\ bpc = "done"
    /\ Len(words) = 2
    /\ SummaryEvent.model_a_first_wins = 1
    /\ SummaryEvent.model_a_first_draws = 1
    /\ SummaryEvent.model_b_first_wins = 1
    /\ SummaryEvent.model_b_first_losses = 1

\* the position of a phrase of two characters in the order of str
PhraseBefore(a, b) == a[1] < b[1] \/ (a[1] = b[1] /\ a[2] < b[2])

\* C20: the summary does not depend on the order in which the matches
\* completed: it is the summary of the tasks' entries taken in creation
\* order, and its battles are the tasks' entries in ascending order of
\* (start_word, first_player).
C20_OrderIndependent ==
    bpc = "done" =>
        LET s == SummaryEvent
            created == [i \in TaskRange |-> tasks[i].ret]
        IN  /\ s = BenchmarkSummaryEvent(created, Len(tasks))
            /\ Len(s.battles) = Len(tasks)
            /\ {s.battles[k] : k \in 1..Len(s.battles)} =
                    {tasks[i].ret : i \in TaskRange}
            /\ \A k \in 1..(Len(s.battles) - 1) :
                 \/ PhraseBefore(s.battles[k].start_word, s.battles[k + 1].start_word)
                 \/ /\ s.battles[k].start_word = s.battles[k + 1].start_word
                    /\ s.battles[k].first_player = "A"
                    /\ s.battles[k + 1].first_player = "B"

C20_Witness ==
    /\ bpc = "done"
    /\ words = <<StartLine, Line(1)>>
    /\ finished = <<2, 1, 4, 3>>
    /\ SummaryEvent.battles # results
    /\ SummaryEvent.battles[1] = tasks[3].ret

-----------------------------------------------------------------------------
(* Reward properties *)

RewardCalled == fcall.fn = "compute_step_reward"

\* what the response text says, read off the text itself
TextParses == fcall.text.kind \in {"dict", "embedded", "empty_dict"}
TextHasFields == fcall.text.kind \in {"dict", "embedded"}
TextWord == IF TextHasFields THEN fcall.text.word ELSE Empty
TextNextWord == IF TextHasFields THEN fcall.text.next_word ELSE Empty
TextSuccess == TextHasFields /\ fcall.text.success
TextInLexicon == TextWord \in _chengyu_set
TextChains ==
    TextInLexicon /\ ChainsUnder(fcall.mode, fcall.previous_word, TextWord)
TextUsed == TextWord \in fcall.used_words

\* C21: the compliance term is that of the first check that fails, in the
\* order parse (-1.0), success flag (fail_penalty), lexicon (-0.8), chain
\* (-0.8), used-set (-0.6), and +0.3 with valid = true when none fails; a
\* response that is not in the lexicon scores strictly less than one that
\* fails only the used-set check, for the same round penalty.
C21_CompliancePriority ==
    RewardCalled =>
        LET info == fcall.ret[2]
        IN  /\ info.compliance =
                 (IF ~TextParses THEN -10
                  ELSE IF ~TextSuccess THEN fcall.fail_penalty
                  ELSE IF ~TextInLexicon THEN -8
                  ELSE IF ~TextChains THEN -8
                  ELSE IF TextUsed THEN -6
                  ELSE 3)
            /\ info.valid <=>
                 (TextParses /\ TextSuccess /\ TextInLexicon /\ TextChains /\ ~TextUsed)
            /\ (TextSuccess /\ TextChains /\ TextUsed)
                  => fcall.ret_not_in_lexicon[1] < fcall.ret[1]

C21_Witness ==
    /\ RewardCalled
    /\ TextSuccess /\ TextInLexicon /\ ~TextChains /\ TextUsed
    /\ fcall.ret[2].compliance = -8
    /\ fcall.ret[2].reason = "_first_char_mismatch"

\* the tier a count of continuations belongs to
Tier(c) == IF c = 0 THEN 0 ELSE IF c \in 1..5 THEN 1 ELSE IF c \in 6..20 THEN 2 ELSE 3

\* C22: for a valid move the strategy term is +0.5, +0.3, +0.1, 0.0 for a
\* continuation count of 0, 1..5, 6..20, 21 or more; the count is that of
\* the phrase against the used-set with the phrase added, and is reported as
\* continuation_count.
C22_StrategyTiers ==
    (RewardCalled /\ fcall.ret[2].valid) =>
        LET info == fcall.ret[2]
            c == Cardinality({x \in _chengyu_set :
                    /\ x \in candidates_of(TextWord, fcall.mode)
                    /\ x \notin fcall.used_words \cup {TextWord}})
        IN  /\ info.continuation_count = c
            /\ info.strategy = (CASE Tier(c) = 0 -> 5
                                  [] Tier(c) = 1 -> 3
                                  [] Tier(c) = 2 -> 1
                                  [] Tier(c) = 3 -> 0)

C22_Witness ==
    /\ RewardCalled
    /\ fcall.ret[2].valid
    /\ fcall.ret[2].continuation_count = 20
    /\ fcall.ret[2].strategy = 1

\* C28: the returned total is the total of the breakdown and is the sum of
\* its round penalty, compliance, strategy and foresight terms; it is the
\* same for another round number; when valid is false, strategy and
\* foresight are 0 and continuation_count is -1; valid is true exactly when
\* the rejection reason is empty.
C28_TotalIsSum ==
    RewardCalled =>
        LET info == fcall.ret[2]
        IN  /\ fcall.ret[1] = info.total
            /\ info.round_penalty = fcall.round_penalty
            /\ info.total = info.round_penalty + info.compliance
                                + info.strategy + info.foresight
            /\ fcall.ret_next_round[1] = fcall.ret[1]
            /\ ~info.valid => /\ info.strategy = 0
                              /\ info.foresight = 0
                              /\ info.continuation_count = -1
            /\ info.valid <=> (info.reason = "")

C28_Witness ==
    /\ RewardCalled
    /\ fcall.round_penalty = -1
    /\ fcall.ret[2].valid
    /\ fcall.ret[2].strategy = 3
    /\ fcall.ret[2].foresight = 3
    /\ fcall.ret[1] = 8

\* C29: in exact-character mode, for a valid move with a non-empty
\* next_word the foresight term is +0.3 exactly when the live match, after
\* accepting the same move from the same used-set and seeing the opponent
\* fail, rules without reversal; an empty next_word earns 0.
C29_ForesightMatchesLive ==
    (RewardCalled /\ fcall.mode = "same_char" /\ fcall.ret[2].valid) =>
        /\ fcall.ret[2].foresight \in {0, 3}
        /\ TextNextWord # Empty =>
              ((fcall.ret[2].foresight = 3) <=> (fcall.live = <<"A", "failed">>))
        /\ (TextNextWord # Empty /\ fcall.ret[2].foresight = 0) =>
              fcall.live = <<"B", _player_label("A") \o MsgCannotProve>>
        /\ TextNextWord = Empty => fcall.ret[2].foresight = 0

C29_Witness ==
    /\ RewardCalled /\ fcall.mode = "same_char" /\ fcall.ret[2].valid
    /\ TextWord = Line(2)
    /\ TextNextWord = Back
    /\ Back \in fcall.used_words
    /\ fcall.ret[2].foresight = 0
    /\ fcall.live[1] = "B"

\* the events run_battle has yielded
Delivered == stream.delivered

\* C23: the events of a streamed match are delivered in turn order, then
\* the result: the k-th event delivered is the event of round k, numbered
\* k, for every turn played so far at most one, in the order of the turns;
\* a result event is the last event delivered, comes after the event of
\* every round of the match, and closes the stream.
C23_EventOrder ==
    LET n == Len(Delivered)
    IN  /\ \A k \in 1..n :
              Delivered[k].event = "round" =>
                  /\ k <= Len(history_records)
                  /\ Delivered[k].data = history_records[k]
                  /\ Delivered[k].data.round = k
        /\ \A k \in 1..n :
              Delivered[k].event = "result" =>
                  /\ k = n
                  /\ k = Len(history_records) + 1
                  /\ Delivered[k].data.rounds = k - 1
                  /\ stream.st = "closed"
                  /\ Terminal
        /\ \A k \in 1..n : Delivered[k].event \in {"round", "result"}
        /\ stream.st = "closed" => n > 0 /\ Delivered[n].event = "result"

C23_Witness ==
    /\ stream.st = "closed"
    /\ Len(Delivered) = 4
    /\ Delivered[3].data.valid = FALSE
    /\ Delivered[4].event = "result"

\* C24: the persistence collaborator is called once per match: nothing is
\* stored while the match is played or waits to be stored, and by then the
\* winner is decided; once the call returned there is exactly one row, it
\* holds every round record of the match up to the last one and the final
\* winner and reason, and its id is the result's battle_id; a call that
\* raised stored nothing and is not repeated.
C24_PersistOnce ==
    /\ Len(db) <= 1
    /\ pc = "loop" => db = << >> /\ result = NoResult /\ winner = "none"
    /\ pc = "save" => db = << >> /\ result = NoResult
                        /\ winner \in {"A", "B", "draw"}
    /\ pc = "raised" => db = << >> /\ result = NoResult
    /\ pc = "done" =>
          /\ Len(db) = 1
          /\ db[1].history = history_records
          /\ Len(db[1].history) = round_num
          /\ \A k \in 1..round_num : db[1].history[k].round = k
          /\ db[1].winner = winner /\ db[1].reason = reason
          /\ db[1].start_word = start_word
          /\ winner \in {"A", "B", "draw"}
          /\ result.winner = winner /\ result.reason = reason
          /\ result.battle_id = db[1].id

C24_Witness ==
    /\ pc = "done"
    /\ Len(db) = 1
    /\ Len(db[1].history) = 3
    /\ db[1].history[3].valid = FALSE
    /\ db[1].winner = "B"
    /\ result.battle_id = 1

\* a step in which the player to move fails the turn, at any of the three
\* failure sites
FailureStep == pc = "loop" /\ pc' = "save" /\ winner' # "draw"

\* the state before a failed turn calls for the reversal
ReversalDue == history_words # << >> /\ last_next_word # << >> /\ ~WitnessLegal

\* C25: whichever way a turn fails (the call raises, the player resigns,
\* the phrase does not validate), the winner is decided by the state before
\* the turn alone: the failing player if the last accepted turn left a
\* witness that is not a legal continuation, the opponent otherwise; the
\* failed turn changes neither history_words nor used_words nor the witness;
\* and the reason is the reversal text in the first case and the failing
\* turn's own reason in the second.
C25_SameReversal ==
    [][FailureStep =>
          /\ winner' = IF ReversalDue THEN current_player ELSE Other(current_player)
          /\ history_words' = history_words
          /\ used_words' = used_words
          /\ last_next_word' = last_next_word
          /\ last_valid_player' = last_valid_player
          /\ current_player' = current_player
          /\ reason' = IF ReversalDue
                       THEN Label(Other(current_player)) \o "_cannot_prove_continuation"
                       ELSE OwnReason']_vars

\* a resignation that names the unused witness of the previous turn, won
\* by the opponent
C25_Witness ==
    /\ pc = "save"
    /\ FailedTurn
    /\ ~LastRecord.success /\ LastRecord.valid
    /\ LastRecord.word = last_next_word
    /\ last_next_word \in _chengyu_set
    /\ winner = Other(FailedPlayer)

Odd(n) == n % 2 = 1

\* C27: the turns of a match alternate: every round makes one call of the
\* move source, and makes it after the round before is over; round r is
\* played by A iff r is odd; when round r is called the history holds the
\* r - 1 phrases accepted in the rounds before; and a failure that follows
\* an accepted turn finds the failing player's opponent as the last accepted
\* player.
C27_StrictAlternation ==
    /\ llm_calls = round_num
    /\ Len(history_records) = round_num
    /\ \A k \in 1..Len(history_records) :
          /\ history_records[k].round = k
          /\ history_records[k].player = "A" <=> Odd(k)
          /\ history_records[k].player = "B" <=> ~Odd(k)
    /\ \A k \in 1..Len(history_words) :
          /\ history_records[k].success /\ history_records[k].valid
          /\ history_records[k].word = history_words[k]
    /\ pc = "loop" =>
          /\ Len(history_words) = round_num
          /\ current_player = "A" <=> Odd(round_num + 1)
          /\ current_player = "B" <=> ~Odd(round_num + 1)
    /\ FailedTurn =>
          /\ Len(history_words) = round_num - 1
          /\ FailedPlayer = current_player
    /\ (FailedTurn /\ history_words # << >>) =>
          /\ last_valid_player = Other(FailedPlayer)
          /\ last_valid_player = history_records[round_num - 1].player
    /\ history_words = << >> => last_valid_player = ""

C27_Witness ==
    /\ pc = "save"
    /\ FailedTurn
    /\ round_num = 4
    /\ FailedPlayer = "B"
    /\ last_valid_player = "A"
    /\ Len(history_words) = 3

\* the match goes on and no phrase of the lexicon is a legal, unused
\* continuation of the phrase accepted last
DeadEnd ==
    /\ pc = "loop"
    /\ history_words # << >>
    /\ \A c \in _chengyu_set : ~(Chains(c, LastAccepted) /\ c \notin used_words)

\* C30: after a phrase is accepted in a round before the last, with no
\* legal unused continuation of it in the lexicon, the next turn ends the
\* match whatever the player to move does: if the accepted turn came with a
\* non-empty next_word, the player to move wins and the reason names the
\* accepted turn's player as unable to prove a continuation; if it came with
\* an empty next_word, the accepted turn's player wins with the failing
\* turn's own reason.
C30_DeadEndWithWitnessLoses ==
    [][(DeadEnd /\ round_num' = round_num + 1) =>
          /\ pc' = "save"
          /\ current_player = Other(last_valid_player)
          /\ ~(LastRecord'.success /\ LastRecord'.valid)
          /\ last_next_word # << >> =>
                /\ winner' = current_player
                /\ reason' = Label(last_valid_player) \o "_cannot_prove_continuation"
          /\ last_next_word = << >> =>
                /\ winner' = last_valid_player
                /\ reason' = OwnReason']_vars

\* Back was accepted with the used phrase Line(2) as its witness, and the
\* other player's phrase was rejected
C30_Witness ==
    /\ pc = "save"
    /\ FailedTurn
    /\ LastAccepted = Back
    /\ last_next_word = Line(2)
    /\ LastRecord.success /\ ~LastRecord.valid
    /\ winner = FailedPlayer
    /\ winner = Other(last_valid_player)

\* the slots of the semaphore that are taken
SlotsHeld == max_concurrency - semaphore

\* C26 as stated: a slot is held only while a call of the move source is in
\* flight, so the slots taken are the matches with a call in flight.
C26_SlotPerCall ==
    bpc # "idle" => SlotsHeld = Cardinality(InFlight)

\* C26, amended: a slot is held for the whole match: the slots taken are
\* the matches between admission and the end of their task, whether a call
\* of the move source is in flight or not; a queued match is admitted only
\* when such a match has ended; with K = 1 at most one match is under way,
\* so the turns of different matches never interleave.
C26_SlotPerMatch ==
    bpc # "idle" =>
        /\ semaphore >= 0
        /\ SlotsHeld = Cardinality(Admitted)
        /\ \A i \in TaskRange :
              tasks[i].st = "waiting" <=> \E k \in 1..Len(waiters) : waiters[k] = i
        /\ max_concurrency = 1 => Cardinality(Admitted) <= 1

\* K = 1: the last call of the admitted match has completed, the match is
\* being stored, and the other matches are still queued
C26_Witness ==
    /\ max_concurrency = 1
    /\ \E i \in TaskRange : tasks[i].st = "save"
    /\ InFlight = {}
    /\ semaphore = 0
    /\ Len(waiters) = 3

\* the texts that follow a player's label in a reason
LabelledReasons ==
    {MsgCallFailed, MsgResigned, MsgNotInLexicon, MsgFirstCharMismatch,
     MsgReused, MsgCannotProve}

\* the player a reason names by its label, "none" if it names no player
NamedPlayer(text) ==
    IF \E m \in LabelledReasons : text = LabelA \o m THEN "A"
    ELSE IF \E m \in LabelledReasons : text = LabelB \o m THEN "B"
    ELSE "none"

\* C31: every tournament entry is expressed in one frame: the reason of an
\* entry that is not a draw names, by the tournament's own label, the model
\* that the match's reason named by its seat (the player who failed, or who
\* could not prove a continuation), and that model is not the entry's
\* winner.
C31_OneFrame ==
    \A i \in TaskRange :
        (tasks[i].st = "returned" /\ tasks[i].ret.winner # "draw") =>
            LET t == tasks[i]
                named == NamedPlayer(t.ret.reason)
            IN  /\ named \in {"A", "B"}
                /\ NamedPlayer(t.raw.reason) \in {"A", "B"}
                /\ configs(named) = SeatModel(t.first_player, NamedPlayer(t.raw.reason))
                /\ named # t.ret.winner

=============================================================================
